---- MODULE Spec2Model ----
(***************************************************************************)
(* Model of the auction endpoint of artha-position-checker:                *)
(*   src/app/api/auction/route.ts        GET, getAllLiquidatable, ...      *)
(*   src/services/liquidation-service.ts upsertLiquidations                *)
(*                                                                         *)
(* Strings that the code parses or formats (position ids, token ids, debt, *)
(* floor price) are sequences of one-character strings; all other strings  *)
(* are plain.  JavaScript Numbers are exact decimals m * 10^e; the inputs  *)
(* of the model are chosen so that IEEE-754 double arithmetic yields       *)
(* exactly the double nearest to that decimal, which Number::toString      *)
(* prints with the digits of m.                                            *)
(***************************************************************************)
EXTENDS Integers, Sequences, FiniteSets, TLC

VARIABLES
    pc,           \* where the handler is suspended
    invocation,   \* the number of GET invocations started
    positions,    \* route.ts:129
    nftData,      \* route.ts:130
    idx,          \* the index in positions of the loop of route.ts:133
    result,       \* route.ts:131
    pending,      \* the records of result whose upsert has not settled
    table,        \* the rows of the liquidation table
    response,     \* the response of the current invocation
    prevResponse, \* the response of the invocation before it
    calls         \* the calls of the current invocation, in order

vars == <<pc, invocation, positions, nftData, idx, result, pending, table,
          response, prevResponse, calls>>

\* Bounds of the model.
MaxPositions == 2
MaxInvocations == 2

----------------------------------------------------------------------------
\* JavaScript values

Undefined == <<"undefined">>

DigitChars == <<"0", "1", "2", "3", "4", "5", "6", "7", "8", "9">>

DigitSet == {DigitChars[d] : d \in 1..10}

DigitValue(c) == (CHOOSE d \in 1..10 : DigitChars[d] = c) - 1

RECURSIVE Digits(_)
\* the decimal digits of a natural number, most significant first
Digits(n) == IF n < 10 THEN <<DigitChars[n + 1]>>
             ELSE Digits(n \div 10) \o <<DigitChars[(n % 10) + 1]>>

RECURSIVE Zeros(_)
Zeros(n) == IF n <= 0 THEN <<>> ELSE <<"0">> \o Zeros(n - 1)

RECURSIVE Pow10(_)
Pow10(n) == IF n <= 0 THEN 1 ELSE 10 * Pow10(n - 1)

\* A Number: NaN, Infinity, or the finite non-negative value m * 10^e with
\* m not divisible by 10 (zero is m = 0, e = 0).
NaN == [k |-> "nan", m |-> 0, e |-> 0]
Infinity == [k |-> "inf", m |-> 0, e |-> 0]

RECURSIVE Norm(_, _)
Norm(m, e) == IF m = 0 THEN [k |-> "fin", m |-> 0, e |-> 0]
              ELSE IF m % 10 = 0 THEN Norm(m \div 10, e + 1)
              ELSE [k |-> "fin", m |-> m, e |-> e]

Num(m, e) == Norm(m, e)

IsZero(x) == x.k = "fin" /\ x.m = 0

\* x / y of two Numbers (route.ts:47).  The quotient of two finite values is
\* taken with up to three extra decimal places, which is exact for every
\* divisor the model uses.
NumDiv(x, y) ==
    IF x.k = "nan" \/ y.k = "nan" THEN NaN
    ELSE IF x.k = "inf" THEN (IF y.k = "inf" THEN NaN ELSE Infinity)
    ELSE IF y.k = "inf" THEN Num(0, 0)
    ELSE IF IsZero(y) THEN (IF IsZero(x) THEN NaN ELSE Infinity)
    ELSE LET j == CHOOSE j \in 0..3 : (x.m * Pow10(j)) % y.m = 0
         IN  Norm((x.m * Pow10(j)) \div y.m, x.e - y.e - j)

\* x * y of two Numbers (route.ts:47-48)
NumMul(x, y) ==
    IF x.k = "nan" \/ y.k = "nan" THEN NaN
    ELSE IF x.k = "inf" THEN (IF IsZero(y) THEN NaN ELSE Infinity)
    ELSE IF y.k = "inf" THEN (IF IsZero(x) THEN NaN ELSE Infinity)
    ELSE Norm(x.m * y.m, x.e + y.e)

\* Number.prototype.toString() (radix 10) as ECMAScript defines Number::toString:
\* with k digits and the decimal point after digit n, positional notation is
\* used for -6 < n <= 21 and exponent notation otherwise.
NumberToString(x) ==
    IF x.k = "nan" THEN <<"N", "a", "N">>
    ELSE IF x.k = "inf" THEN <<"I", "n", "f", "i", "n", "i", "t", "y">>
    ELSE IF x.m = 0 THEN <<"0">>
    ELSE LET s == Digits(x.m)
             k == Len(s)
             n == x.e + k
             ex == n - 1
             expo == <<"e">> \o (IF ex < 0 THEN <<"-">> ELSE <<"+">>)
                           \o Digits(IF ex < 0 THEN -ex ELSE ex)
         IN  IF k <= n /\ n <= 21 THEN s \o Zeros(n - k)
             ELSE IF 0 < n /\ n <= 21
                  THEN SubSeq(s, 1, n) \o <<".">> \o SubSeq(s, n + 1, k)
             ELSE IF -6 < n /\ n <= 0 THEN <<"0", ".">> \o Zeros(-n) \o s
             ELSE IF k = 1 THEN s \o expo
             ELSE <<s[1], ".">> \o SubSeq(s, 2, k) \o expo

\* String.prototype.split(sep) for a one-character separator (route.ts:16)
RECURSIVE Split(_, _)
Split(s, sep) ==
    IF \A p \in 1..Len(s) : s[p] # sep THEN <<s>>
    ELSE LET p == CHOOSE p \in 1..Len(s) :
                     s[p] = sep /\ \A q \in 1..(p - 1) : s[q] # sep
         IN  <<SubSeq(s, 1, p - 1)>> \o Split(SubSeq(s, p + 1, Len(s)), sep)

\* BigInt(v) (route.ts:21, route.ts:139) returns normally for a string of
\* decimal digits (the empty string gives 0n) and throws otherwise:
\* a TypeError for undefined, a SyntaxError for any other text.
BigIntThrows(v) == v = Undefined \/ \E p \in 1..Len(v) : v[p] \notin DigitSet

\* a || b on a parsed or formatted string: the empty string is falsy
OrElse(a, b) == IF a = <<>> THEN b ELSE a

\* a || b on a plain string
OrElseStr(a, b) == IF a = "" THEN b ELSE a

\* the object {} (route.ts:148)
EmptyObject == [f \in {} |-> f]

\* null (liquidation-service.ts:23), distinct from every bidder of the model
Null == "null"

----------------------------------------------------------------------------
\* What the external systems can answer

Str_0xabc_7 == <<"0", "x", "a", "b", "c", "-", "7">>
Str_0xdef_7 == <<"0", "x", "d", "e", "f", "-", "7">>
Str_0xabc_07 == <<"0", "x", "a", "b", "c", "-", "0", "7">>
Str_0xdef == <<"0", "x", "d", "e", "f">>
Str_0xabc_8 == <<"0", "x", "a", "b", "c", "-", "8">>

\* PositionSchema records the indexer can return (route.ts:56-83).
\* Position1 is the position of the end-to-end scenario; Position2 holds the
\* same token id in another pool; Position3 has a token id that equals "7"
\* as a number but not as a string, and wei-sized amounts; the id of
\* Position4 has no separator; Position5 carries no token id.
Position1 ==
    [id |-> Str_0xabc_7, tokenId |-> <<"7">>, borrowShares |-> Num(50, 0),
     account |-> [id |-> "0xacc1"], bidder |-> Null,
     pool |-> [totalBorrowShares |-> Num(100, 0), totalBorrowAssets |-> Num(1000, 0),
               oracle |-> "0xoracle1", loanAddress |-> "0xloan1"]]

Position2 ==
    [id |-> Str_0xdef_7, tokenId |-> <<"7">>, borrowShares |-> Num(1, 0),
     account |-> [id |-> "0xacc2"], bidder |-> "0xbidder",
     pool |-> [totalBorrowShares |-> Num(4, 0), totalBorrowAssets |-> Num(1000, 0),
               oracle |-> "0xoracle2", loanAddress |-> "0xloan2"]]

Position3 ==
    [id |-> Str_0xabc_07, tokenId |-> <<"0", "7">>, borrowShares |-> Num(5, 20),
     account |-> [id |-> "0xacc1"], bidder |-> Null,
     pool |-> [totalBorrowShares |-> Num(1, 21), totalBorrowAssets |-> Num(2, 21),
               oracle |-> "0xoracle1", loanAddress |-> "0xloan1"]]

Position4 ==
    [id |-> Str_0xdef, tokenId |-> <<"9">>, borrowShares |-> Num(3, 0),
     account |-> [id |-> "0xacc2"], bidder |-> Null,
     pool |-> [totalBorrowShares |-> Num(4, 0), totalBorrowAssets |-> Num(8, 0),
               oracle |-> "0xoracle2", loanAddress |-> "0xloan2"]]

Position5 ==
    [id |-> Str_0xabc_8, tokenId |-> Undefined, borrowShares |-> Num(3, 0),
     account |-> [id |-> "0xacc1"], bidder |-> Null,
     pool |-> [totalBorrowShares |-> Num(4, 0), totalBorrowAssets |-> Num(8, 0),
               oracle |-> "0xoracle1", loanAddress |-> "0xloan1"]]

Positions == {Position1, Position2, Position3, Position4, Position5}

\* the lists of positions a GraphQL response can carry, in fetch order
PositionLists == UNION {[1..n -> Positions] : n \in 0..MaxPositions}

\* AlchemyNftSchema records of the NFT proxy: two records with token id "7"
Nft1 == [contract |-> [address |-> "0xA", name |-> "Arte", symbol |-> "ART"],
         tokenId |-> <<"7">>]

Nft2 == [contract |-> [address |-> "0xB", name |-> "Bits", symbol |-> "BIT"],
         tokenId |-> <<"7">>]

\* the JSON bodies {ownedNfts: [...]} the NFT proxy can answer with
NftBodies == {[ownedNfts |-> <<>>], [ownedNfts |-> <<Nft1, Nft2>>]}

\* the values Number(price) of an oracle answer (route.ts:38)
Prices == {Num(250, 0)}

\* thrown values: an Error with its message, or a value that is no Error
Err(msg) == [isError |-> TRUE, message |-> msg]

NonError == [isError |-> FALSE, message |-> ""]

GraphQLFailures ==
    {Err("GraphQL request failed with status 503"),
     Err("Unexpected token < in JSON at position 0"),
     NonError}

NftFailures ==
    {Err("NFT data fetch failed with status 500"),
     Err("Unexpected token < in JSON at position 0")}

UpsertFailures == {Err("database unavailable"), Err("query timed out")}

----------------------------------------------------------------------------
\* Pure functions of route.ts and liquidation-service.ts

\* calculateDebt (route.ts:45-50)
calculateDebt(position) ==
    NumberToString(NumMul(NumDiv(position.borrowShares, position.pool.totalBorrowShares),
                          position.pool.totalBorrowAssets))

\* the arguments of readContract in checkLiquidatableStatus (route.ts:16, 21):
\* [poolId, tokenId] are the first two segments of the id, undefined when missing
IdParts(position) ==
    LET parts == Split(position.id, "-")
    IN  [poolId |-> IF Len(parts) >= 1 THEN parts[1] ELSE Undefined,
         tokenId |-> IF Len(parts) >= 2 THEN parts[2] ELSE Undefined]

\* whether building the arguments throws inside the try block (route.ts:21)
CheckArgsThrow(position) == BigIntThrows(IdParts(position).tokenId)

\* a join that takes the last matching record
FindNftLast(ownedNfts, position) ==
    IF \E p \in 1..Len(ownedNfts) : ownedNfts[p].tokenId = position.tokenId
    THEN ownedNfts[CHOOSE p \in 1..Len(ownedNfts) :
                       /\ ownedNfts[p].tokenId = position.tokenId
                       /\ \A q \in (p + 1)..Len(ownedNfts) :
                             ownedNfts[q].tokenId # position.tokenId]
    ELSE EmptyObject

\* nftData.ownedNfts.find(nft => nft.tokenId === position.tokenId) || {}
\* (route.ts:142-148): the first record in list order, {} when there is none
FindNft(ownedNfts, position) ==
    IF \E p \in 1..Len(ownedNfts) : ownedNfts[p].tokenId = position.tokenId
    THEN ownedNfts[CHOOSE p \in 1..Len(ownedNfts) :
                       /\ ownedNfts[p].tokenId = position.tokenId
                       /\ \A q \in 1..(p - 1) : ownedNfts[q].tokenId # position.tokenId]
    ELSE EmptyObject

\* the record pushed on the result list (route.ts:147-153)
ResultRecord(nft, position, price) ==
    [nftData |-> nft,
     isLiquidatableStatus |-> TRUE,
     position |-> position,
     floorPrice |-> NumberToString(price),
     debt |-> calculateDebt(position)]

\* liquidation.nftData?.contract?.<field> || '' (liquidation-service.ts:11, 16, 17)
ContractField(nft, field) ==
    IF "contract" \in DOMAIN nft THEN OrElseStr(nft.contract[field], "") ELSE ""

\* the unique key addressIP_tokenId of the upsert (liquidation-service.ts:9-14)
WhereKey(liquidation) ==
    [addressIP |-> ContractField(liquidation.nftData, "address"),
     tokenId |-> OrElse(liquidation.position.tokenId, <<>>)]

\* an update payload that leaves floor price and debt as they were
UpdateDataStale(liquidation) ==
    [nftName |-> ContractField(liquidation.nftData, "name"),
     nftSymbol |-> ContractField(liquidation.nftData, "symbol"),
     isLiquidatableStatus |-> liquidation.isLiquidatableStatus,
     positionAccount |-> OrElseStr(liquidation.position.account.id, ""),
     loanAddress |-> OrElseStr(liquidation.position.pool.loanAddress, ""),
     bidder |-> OrElseStr(liquidation.position.bidder, Null)]

\* the update payload (liquidation-service.ts:15-24)
UpdateData(liquidation) ==
    [nftName |-> ContractField(liquidation.nftData, "name"),
     nftSymbol |-> ContractField(liquidation.nftData, "symbol"),
     isLiquidatableStatus |-> liquidation.isLiquidatableStatus,
     positionAccount |-> OrElseStr(liquidation.position.account.id, ""),
     loanAddress |-> OrElseStr(liquidation.position.pool.loanAddress, ""),
     floorPrice |-> OrElse(liquidation.floorPrice, <<"0">>),
     debt |-> OrElse(liquidation.debt, <<"0">>),
     bidder |-> OrElseStr(liquidation.position.bidder, Null)]

\* the create payload (liquidation-service.ts:25-36)
CreateData(liquidation) ==
    [addressIP |-> ContractField(liquidation.nftData, "address"),
     nftName |-> ContractField(liquidation.nftData, "name"),
     nftSymbol |-> ContractField(liquidation.nftData, "symbol"),
     tokenId |-> OrElse(liquidation.position.tokenId, <<>>),
     isLiquidatableStatus |-> liquidation.isLiquidatableStatus,
     positionAccount |-> OrElseStr(liquidation.position.account.id, ""),
     loanAddress |-> OrElseStr(liquidation.position.pool.loanAddress, ""),
     floorPrice |-> OrElse(liquidation.floorPrice, <<"0">>),
     debt |-> OrElse(liquidation.debt, <<"0">>),
     bidder |-> OrElseStr(liquidation.position.bidder, Null)]

RowKey(row) == [addressIP |-> row.addressIP, tokenId |-> row.tokenId]

\* prisma.liquidation.upsert({where, update, create}) on a table with a unique
\* constraint on (addressIP, tokenId) (liquidation-service.ts:8-37): the row
\* the key selects takes the update payload; without such a row the create
\* payload is inserted, which the unique constraint refuses when the
\* payload's own key is taken.
PrismaUpsert(tbl, where, update, create) ==
    IF \E row \in tbl : RowKey(row) = where
    THEN [ok |-> TRUE,
          table |-> {IF RowKey(row) = where
                     THEN [f \in DOMAIN row |->
                              IF f \in DOMAIN update THEN update[f] ELSE row[f]]
                     ELSE row : row \in tbl}]
    ELSE IF \E row \in tbl : RowKey(row) = RowKey(create)
    THEN [ok |-> FALSE, table |-> tbl]
    ELSE [ok |-> TRUE, table |-> tbl \cup {create}]

UniqueViolation == Err("Unique constraint failed on the fields: (addressIP, tokenId)")

\* a catch block that reports every thrown value as unknown
ErrorResponseUnknown(error) ==
    [status |-> 500,
     error |-> "Failed to fetch positions",
     details |-> "Unknown error",
     body |-> <<>>]

\* the handler's catch block (route.ts:171-176)
ErrorResponse(error) ==
    [status |-> 500,
     error |-> "Failed to fetch positions",
     details |-> IF error.isError THEN error.message ELSE "Unknown error",
     body |-> <<>>]

\* NextResponse.json(result, { status: 200 }) (route.ts:170)
OkResponse(res) == [status |-> 200, error |-> "", details |-> "", body |-> res]

NoResponse == [status |-> 0, error |-> "", details |-> "", body |-> <<>>]

\* one observed event of the invocation: op names the call, i the position or
\* record it is for, threw whether the underlying call failed and error with
\* what, flag the boolean and num the Number the call returned
Event(op, i, threw, flag, num, error) ==
    [op |-> op, i |-> i, threw |-> threw, flag |-> flag, num |-> num, error |-> error]

Call(op, i, threw, flag, num) == Event(op, i, threw, flag, num, NonError)

\* what a contract read can do
ContractOutcomes == {"true", "false", "throws"}

\* a checker without the catch block: the failure reaches the caller
checkLiquidatableStatusRethrows(position, outcome) ==
    IF CheckArgsThrow(position) \/ outcome = "throws"
    THEN [propagates |-> TRUE, value |-> FALSE]
    ELSE [propagates |-> FALSE, value |-> (outcome = "true")]

\* checkLiquidatableStatus (route.ts:14-27) when the contract read ends in
\* outcome: the value returned, or the error propagated to the caller
checkLiquidatableStatus(position, outcome) ==
    IF CheckArgsThrow(position) \/ outcome = "throws"
    THEN [propagates |-> FALSE, value |-> FALSE]
    ELSE [propagates |-> FALSE, value |-> (outcome = "true")]

\* a reader without the catch block: the failure reaches the caller
fetchFloorPriceRethrows(threw, price) ==
    IF threw THEN [propagates |-> TRUE, value |-> Num(0, 0)]
    ELSE [propagates |-> FALSE, value |-> price]

\* fetchFloorPrice (route.ts:29-43) when the oracle read throws or answers price
fetchFloorPrice(threw, price) ==
    IF threw THEN [propagates |-> FALSE, value |-> Num(0, 0)]
    ELSE [propagates |-> FALSE, value |-> price]

\* a test that lets every position through
IsAppendedAlways(isLiquidatableStatus) == TRUE

\* the test of route.ts:136
IsAppended(isLiquidatableStatus) == isLiquidatableStatus

\* the loop of route.ts:133 moves to the next position in fetch order
NextPosition(i) == i + 1

\* a loop that stops one position early
LoopDoneEarly(i, n) == i >= n

\* the loop of route.ts:133 ends past the last of n positions
LoopDone(i, n) == i > n

\* a handler that answers with the last failure instead of the first
ResponseAfterSettleLast(resp, failed, error, remaining, res) ==
    IF failed THEN ErrorResponse(error)
    ELSE IF resp.status # 0 THEN resp
    ELSE IF remaining = {} THEN OkResponse(res)
    ELSE resp

\* Promise.all over the upserts, awaited by GET (liquidation-service.ts:40,
\* route.ts:168-176): the response after one more upsert settled, failed
\* with error or not, leaving remaining upserts in flight
ResponseAfterSettle(resp, failed, error, remaining, res) ==
    IF resp.status # 0 THEN resp
    ELSE IF failed THEN ErrorResponse(error)
    ELSE IF remaining = {} THEN OkResponse(res)
    ELSE resp

----------------------------------------------------------------------------
\* The handler

Init ==
    /\ pc = "idle"
    /\ invocation = 0
    /\ positions = <<>>
    /\ nftData = EmptyObject
    /\ idx = 0
    /\ result = <<>>
    /\ pending = {}
    /\ table = {}
    /\ response = NoResponse
    /\ prevResponse = NoResponse
    /\ calls = <<>>

\* a thrown error reaches the catch block of GET (route.ts:158-161, 171-176)
Abort(error, cs) ==
    /\ response' = ErrorResponse(error)
    /\ pc' = "done"
    /\ calls' = Append(cs, Event("throw", 0, TRUE, FALSE, Num(0, 0), error))
    /\ UNCHANGED <<invocation, positions, idx, result, pending, table, prevResponse>>

\* the loop of route.ts:133-155 continues at position i with the result list
\* res; past the last position getAllLiquidatable returns and GET calls
\* upsertLiquidations, which issues one upsert per record (route.ts:157, 168,
\* liquidation-service.ts:7-40)
Continue(i, res, cs) ==
    /\ result' = res
    /\ idx' = i
    /\ UNCHANGED <<invocation, positions, table, prevResponse>>
    /\ IF ~LoopDone(i, Len(positions))
       THEN /\ pc' = "checkLiquidatableStatus"
            /\ calls' = cs
            /\ UNCHANGED <<pending, response>>
       ELSE LET returned == Append(cs, Call("return", Len(res), FALSE, TRUE, Num(0, 0)))
                issued == [j \in 1..Len(res) |-> Call("upsert", j, FALSE, TRUE, Num(0, 0))]
            IN  /\ calls' = returned \o issued
                /\ pending' = 1..Len(res)
                /\ pc' = IF Len(res) = 0 THEN "done" ELSE "upsertLiquidations"
                /\ response' = IF Len(res) = 0 THEN OkResponse(res) ELSE response

\* a request arrives (route.ts:164-166); invocations do not overlap
GET ==
    /\ pc \in {"idle", "done"}
    /\ invocation < MaxInvocations
    /\ invocation' = invocation + 1
    /\ pc' = "fetchGraphQLPositions"
    /\ positions' = <<>>
    /\ nftData' = EmptyObject
    /\ idx' = 0
    /\ result' = <<>>
    /\ pending' = {}
    /\ prevResponse' = response
    /\ response' = NoResponse
    /\ calls' = <<>>
    /\ UNCHANGED table

\* route.ts:52-106, awaited at route.ts:129
fetchGraphQLPositions ==
    /\ pc = "fetchGraphQLPositions"
    /\ \/ \E list \in PositionLists :
             /\ positions' = list
             /\ pc' = "fetchNFTData"
             /\ calls' = Append(calls, Call("positions", 0, FALSE, TRUE, Num(0, 0)))
             /\ UNCHANGED <<invocation, nftData, idx, result, pending, table,
                            response, prevResponse>>
       \/ \E error \in GraphQLFailures :
             /\ Abort(error, Append(calls, Event("positions", 0, TRUE, FALSE, Num(0, 0), error)))
             /\ UNCHANGED nftData

\* route.ts:108-125, awaited at route.ts:130; then route.ts:131-133
fetchNFTData ==
    /\ pc = "fetchNFTData"
    /\ \/ \E body \in NftBodies :
             /\ nftData' = body
             /\ Continue(1, <<>>, Append(calls, Call("nft", 0, FALSE, TRUE, Num(0, 0))))
       \/ \E error \in NftFailures :
             /\ Abort(error, Append(calls, Event("nft", 0, TRUE, FALSE, Num(0, 0), error)))
             /\ UNCHANGED nftData

\* route.ts:134-139 for position idx: the check, then the test of line 136
\* and the evaluation of BigInt(position.tokenId) for the oracle read
checkPosition ==
    /\ pc = "checkLiquidatableStatus"
    /\ LET position == positions[idx]
       IN  \E outcome \in IF CheckArgsThrow(position) THEN {"throws"} ELSE ContractOutcomes :
             LET r == checkLiquidatableStatus(position, outcome)
                 cs == Append(calls, Call("check", idx, outcome = "throws", r.value, Num(0, 0)))
             IN  IF r.propagates
                 THEN Abort(Err("contract read failed"), cs) /\ UNCHANGED nftData
                 ELSE IF ~IsAppended(r.value)
                 THEN Continue(NextPosition(idx), result, cs) /\ UNCHANGED nftData
                 ELSE IF BigIntThrows(position.tokenId)
                 THEN Abort(Err("Cannot convert undefined to a BigInt"), cs) /\ UNCHANGED nftData
                 ELSE /\ pc' = "fetchFloorPrice"
                      /\ calls' = cs
                      /\ UNCHANGED <<invocation, positions, nftData, idx, result,
                                     pending, table, response, prevResponse>>

\* route.ts:137-153 for position idx: the oracle read, the join with the
\* NFT metadata and the push on the result list
readPrice ==
    /\ pc = "fetchFloorPrice"
    /\ LET position == positions[idx]
       IN  \E threw \in BOOLEAN : \E price \in IF threw THEN {Num(0, 0)} ELSE Prices :
             LET r == fetchFloorPrice(threw, price)
                 cs == Append(calls, Call("price", idx, threw, TRUE, r.value))
             IN  IF r.propagates
                 THEN Abort(Err("oracle read failed"), cs) /\ UNCHANGED nftData
                 ELSE /\ Continue(NextPosition(idx),
                                  Append(result,
                                         ResultRecord(FindNft(nftData.ownedNfts, position),
                                                      position, r.value)),
                                  cs)
                      /\ UNCHANGED nftData

\* one upsert issued by upsertLiquidations settles (liquidation-service.ts:8-40,
\* route.ts:168-176): the database applies it or fails it
settleUpsert ==
    /\ pc = "upsertLiquidations"
    /\ \E j \in pending : \E dbError \in {NonError} \cup UpsertFailures :
          LET liquidation == result[j]
              r == PrismaUpsert(table, WhereKey(liquidation), UpdateData(liquidation),
                                CreateData(liquidation))
              failed == dbError # NonError \/ ~r.ok
              error == IF dbError # NonError THEN dbError ELSE UniqueViolation
          IN  /\ table' = IF failed THEN table ELSE r.table
              /\ pending' = pending \ {j}
              /\ response' = ResponseAfterSettle(response, failed, error, pending', result)
              /\ pc' = IF pending' = {} THEN "done" ELSE pc
              /\ calls' = Append(calls, Event("settled", j, failed, ~failed, Num(0, 0),
                                              IF failed THEN error ELSE NonError))
              /\ UNCHANGED <<invocation, positions, nftData, idx, result, prevResponse>>

Next ==
    \/ GET
    \/ fetchGraphQLPositions
    \/ fetchNFTData
    \/ checkPosition
    \/ readPrice
    \/ settleUpsert

Spec == Init /\ [][Next]_vars

----------------------------------------------------------------------------
\* Reading the events of the current invocation

IsCheck(c) == c.op = "check"

IsLiquidatableCheck(c) == c.op = "check" /\ c.flag

IsPrice(c) == c.op = "price"

Checks == SelectSeq(calls, IsCheck)

LiquidatableChecks == SelectSeq(calls, IsLiquidatableCheck)

PriceReads == SelectSeq(calls, IsPrice)

Has(op) == \E k \in 1..Len(calls) : calls[k].op = op

\* getAllLiquidatable returned its list to GET
Returned == Has("return")

\* the records whose upsert was issued, settled, applied
Issued == {calls[k].i : k \in {k \in 1..Len(calls) : calls[k].op = "upsert"}}

Settled == {calls[k].i : k \in {k \in 1..Len(calls) : calls[k].op = "settled"}}

Applied == {calls[k].i : k \in {k \in 1..Len(calls) :
                                    calls[k].op = "settled" /\ ~calls[k].threw}}

\* the position of the list that record j of the result was built from
SourceOf(j) == LiquidatableChecks[j].i

----------------------------------------------------------------------------
\* C1: once getAllLiquidatable has returned, its list holds exactly the
\* positions whose check returned true, in fetch order, every position was
\* checked, and an upsert is only ever issued for a record of that list, so
\* never for a position whose check returned false or failed.
C1_OnlyLiquidatableReturned ==
    /\ Len(result) <= Len(LiquidatableChecks)
    /\ \A j \in 1..Len(result) : result[j].position = positions[SourceOf(j)]
    /\ Issued \subseteq 1..Len(result)
    /\ \A j \in Issued : Checks[SourceOf(j)].flag
    /\ Issued # {} => Returned
    /\ Returned =>
          /\ Len(Checks) = Len(positions)
          /\ Len(result) = Len(LiquidatableChecks)
          /\ Issued = 1..Len(result)

\* a list of two positions, one found liquidatable and one not because its
\* check failed, was returned and persisted
C1_Witness ==
    /\ pc = "done"
    /\ response.status = 200
    /\ Len(positions) = 2
    /\ Len(result) = 1
    /\ \E k \in 1..Len(calls) : calls[k].op = "check" /\ calls[k].threw /\ ~calls[k].flag
    /\ Applied = {1}
    /\ Cardinality(table) = 1

----------------------------------------------------------------------------
\* the error the aggregation threw, and what the handler must say about it
Thrown == calls[Len(calls)].error

Aborted == Len(calls) > 0 /\ calls[Len(calls)].op = "throw"

\* C2: a step in which the position fetch answers a non-success status, or
\* the aggregation fails in any other way (NFT fetch, malformed JSON, a
\* position without a token id), ends the invocation with status 500, the
\* error field, and as details the message of what was thrown ('Unknown
\* error' when it is no Error); no upsert is issued and the table is as it was.
C2_AggregationFailureIs500 ==
    [][Aborted' =>
          /\ pc' = "done"
          /\ response'.status = 500
          /\ response'.error = "Failed to fetch positions"
          /\ response'.details = (IF Thrown'.isError THEN Thrown'.message
                                   ELSE "Unknown error")
          /\ Issued' = {}
          /\ pending' = {}
          /\ table' = table]_vars

\* the second invocation met a 503 from the indexer while rows were stored
C2_Witness ==
    /\ Aborted
    /\ Thrown = Err("GraphQL request failed with status 503")
    /\ calls[1].op = "positions" /\ calls[1].threw
    /\ response.status = 500
    /\ table # {}

\* C3: when the contract read of the checker throws, or its arguments cannot
\* be built because the id holds no numeric token id, the checker returns
\* false, nothing reaches the handler's catch block, and the aggregator goes
\* on with the next position, or returns its list after the last one.
C3_CheckerFailureIsFalse ==
    \A k \in 1..Len(calls) :
        (calls[k].op = "check" /\ calls[k].threw) =>
            /\ ~calls[k].flag
            /\ IF k = Len(calls)
               THEN pc = "checkLiquidatableStatus" /\ idx = calls[k].i + 1
               ELSE \/ calls[k + 1].op = "check" /\ calls[k + 1].i = calls[k].i + 1
                    \/ calls[k + 1].op = "return" /\ calls[k].i = Len(positions)

\* the check of a position whose id has no separator failed, and the next
\* position was checked and found liquidatable
C3_Witness ==
    /\ Len(calls) >= 4
    /\ positions[1] = Position4
    /\ calls[3].op = "check" /\ calls[3].threw /\ ~calls[3].flag
    /\ calls[4].op = "check" /\ calls[4].i = 2 /\ calls[4].flag

\* C4: when the oracle read throws, the reader returns 0, nothing reaches the
\* handler's catch block, and the record of that position is appended with
\* floorPrice "0", which both payloads of its upsert carry.
C4_OracleFailureIsZero ==
    \A k \in 1..Len(calls) :
        (calls[k].op = "price" /\ calls[k].threw) =>
            LET j == Cardinality({q \in 1..k : calls[q].op = "price"})
            IN  /\ calls[k].num = Num(0, 0)
                /\ k < Len(calls) => calls[k + 1].op \in {"check", "return"}
                /\ j <= Len(result)
                /\ result[j].position = positions[calls[k].i]
                /\ result[j].floorPrice = <<"0">>
                /\ UpdateData(result[j]).floorPrice = <<"0">>
                /\ CreateData(result[j]).floorPrice = <<"0">>
                /\ j \in Applied =>
                      \E row \in table : RowKey(row) = WhereKey(result[j])

\* the oracle failed for the only position, whose row was written with "0"
C4_Witness ==
    /\ pc = "done"
    /\ response.status = 200
    /\ Len(result) = 1
    /\ \E k \in 1..Len(calls) : calls[k].op = "price" /\ calls[k].threw
    /\ \E row \in table : RowKey(row) = WhereKey(result[1]) /\ row.floorPrice = <<"0">>

----------------------------------------------------------------------------
RowsAt(key) == {row \in table : RowKey(row) = key}

\* C5: when an invocation has answered 200, every key of its result list,
\* also one that several of its records map to, holds exactly one row, and
\* that row carries the values of a record of this invocation with that key:
\* repeating an invocation overwrites the rows of the first and adds none.
C5_UpsertOverwritesByKey ==
    (pc = "done" /\ response.status = 200) =>
        \A j \in 1..Len(result) :
            LET key == WhereKey(result[j])
            IN  /\ Cardinality(RowsAt(key)) = 1
                /\ \E q \in 1..Len(result) :
                      /\ WhereKey(result[q]) = key
                      /\ RowsAt(key) = {CreateData(result[q])}

\* the second of two successful invocations with the same result list, two
\* records of which map to one key
C5_Witness ==
    /\ pc = "done"
    /\ invocation = 2
    /\ response.status = 200
    /\ prevResponse.status = 200
    /\ prevResponse.body = result
    /\ Len(result) = 2
    /\ WhereKey(result[1]) = WhereKey(result[2])
    /\ result[1] # result[2]
    /\ Cardinality(table) = 1

\* the positions of the NFT list whose token id is the string tokenId
Matches(tokenId) ==
    {p \in 1..Len(nftData.ownedNfts) : nftData.ownedNfts[p].tokenId = tokenId}

\* C6: the nftData of every result record is the first record of the NFT
\* list whose tokenId is the position's tokenId as a string; without such a
\* record it is the empty object, the key of the upsert is ('', tokenId),
\* and once the upsert is applied a row is stored under that key.
C6_NftJoinFirstMatch ==
    \A j \in 1..Len(result) :
        LET tokenId == result[j].position.tokenId
            found == Matches(tokenId)
        IN  IF found = {}
            THEN /\ DOMAIN result[j].nftData = {}
                 /\ WhereKey(result[j]) = [addressIP |-> "", tokenId |-> tokenId]
                 /\ j \in Applied =>
                       \E row \in table : row.addressIP = "" /\ row.tokenId = tokenId
            ELSE /\ \E p \in found :
                       /\ \A q \in found : p <= q
                       /\ result[j].nftData = nftData.ownedNfts[p]

\* token id "07" found no record among those with token id "7" and was
\* stored under the empty address, next to a position joined with the first
\* of two records with its token id
C6_Witness ==
    /\ pc = "done"
    /\ Len(result) = 2
    /\ Applied = {1, 2}
    /\ result[1].position.tokenId = <<"0", "7">>
    /\ Len(nftData.ownedNfts) = 2
    /\ DOMAIN result[1].nftData = {}
    /\ \E row \in table : row.addressIP = "" /\ row.tokenId = <<"0", "7">>
    /\ Cardinality(Matches(result[2].position.tokenId)) = 2
    /\ result[2].nftData = Nft1

\* a plain decimal string: digits, with at most one point between digits
IsPlainDecimal(str) ==
    /\ Len(str) > 0
    /\ \A p \in 1..Len(str) : str[p] \in DigitSet \cup {"."}
    /\ Cardinality({p \in 1..Len(str) : str[p] = "."}) <= 1
    /\ str[1] # "." /\ str[Len(str)] # "."

RECURSIVE DigitsValue(_)
DigitsValue(str) ==
    IF str = <<>> THEN 0
    ELSE 10 * DigitsValue(SubSeq(str, 1, Len(str) - 1)) + DigitValue(str[Len(str)])

IsDigit(c) == c \in DigitSet

\* the Number a plain decimal string denotes
DecimalValue(str) ==
    LET points == {p \in 1..Len(str) : str[p] = "."}
        decimals == IF points = {} THEN 0 ELSE Len(str) - (CHOOSE p \in points : TRUE)
    IN  Norm(DigitsValue(SelectSeq(str, IsDigit)), -decimals)

\* C7: for every position with nonzero totalBorrowShares the debt of the
\* result record is a plain decimal string denoting
\* (borrowShares / totalBorrowShares) * totalBorrowAssets, "500" for 50, 100
\* and 1000, and both payloads of the upsert carry that string.
C7_DebtIsPlainDecimal ==
    \A j \in 1..Len(result) :
        LET position == result[j].position
        IN  ~IsZero(position.pool.totalBorrowShares) =>
                /\ IsPlainDecimal(result[j].debt)
                /\ NumMul(DecimalValue(result[j].debt), position.pool.totalBorrowShares)
                      = NumMul(position.borrowShares, position.pool.totalBorrowAssets)
                /\ position = Position1 => result[j].debt = <<"5", "0", "0">>
                /\ UpdateData(result[j]).debt = result[j].debt
                /\ CreateData(result[j]).debt = result[j].debt

----------------------------------------------------------------------------
\* the settlements that failed, by their place among the events
Failures == {k \in 1..Len(calls) : calls[k].op = "settled" /\ calls[k].threw}

FirstFailure == CHOOSE k \in Failures : \A q \in Failures : k <= q

\* C8: the upserts of an invocation are all in flight together and each
\* stands alone: a failure cancels none of the others (every issued upsert
\* is either settled or still pending), an applied upsert is never undone,
\* the response after a failure is 500 with the reason of the first failure
\* even when rows were written, and the response is 200 with the result list
\* exactly when every upsert was applied.
C8_PartialFailureFirstReason ==
    /\ Returned =>
          /\ pending = (1..Len(result)) \ Settled
          /\ pc = (IF pending = {} THEN "done" ELSE "upsertLiquidations")
    /\ \A j \in Applied : RowsAt(WhereKey(result[j])) # {}
    /\ Failures # {} =>
          /\ response.status = 500
          /\ response.error = "Failed to fetch positions"
          /\ response.details = calls[FirstFailure].error.message
    /\ response.status = 200 =>
          /\ Returned
          /\ Applied = 1..Len(result)
          /\ response.body = result
    /\ (Returned /\ Applied = 1..Len(result)) => response.status = 200

\* of two upserts the first to settle failed, the handler answered 500 with
\* its reason, and the other was applied afterwards
C8_Witness ==
    /\ pc = "done"
    /\ Len(result) = 2
    /\ response.status = 500
    /\ Cardinality(Applied) = 1
    /\ table # {}
    /\ \E k \in Failures : \E q \in 1..Len(calls) :
          k < q /\ calls[q].op = "settled" /\ ~calls[q].threw

\* C9: the events of an invocation come in program order: the position
\* fetch first, the NFT fetch second and only after the first succeeded, the
\* checks in fetch order, each after the check of the position before it and
\* after its oracle read when it was liquidatable, an oracle read right
\* after the check that found its position liquidatable, the return after
\* the last position, every upsert after the return; and the result list
\* keeps fetch order.
C9_StrictlySequential ==
    /\ Len(calls) >= 1 => calls[1].op = "positions"
    /\ \A k \in 1..Len(calls) :
          LET c == calls[k]
          IN  /\ c.op = "positions" => k = 1
              /\ c.op = "nft" => k = 2 /\ ~calls[1].threw
              /\ c.op = "check" =>
                    /\ k >= 3 /\ calls[2].op = "nft" /\ ~calls[2].threw
                    /\ IF c.i = 1 THEN k = 3
                       ELSE \/ /\ calls[k - 1].op = "check"
                               /\ calls[k - 1].i = c.i - 1
                               /\ ~calls[k - 1].flag
                            \/ /\ calls[k - 1].op = "price"
                               /\ calls[k - 1].i = c.i - 1
              /\ c.op = "price" =>
                    /\ calls[k - 1].op = "check"
                    /\ calls[k - 1].i = c.i
                    /\ calls[k - 1].flag
              /\ c.op = "return" =>
                    /\ Cardinality({q \in 1..k : calls[q].op = "check"}) = Len(positions)
                    /\ Cardinality({q \in 1..k : calls[q].op = "price"})
                         = Cardinality({q \in 1..k : calls[q].op = "check" /\ calls[q].flag})
                    /\ c.i = Len(result)
              /\ c.op \in {"upsert", "settled"} =>
                    \E q \in 1..(k - 1) : calls[q].op = "return"
    /\ pc = "checkLiquidatableStatus" =>
          Len(Checks) = idx - 1 /\ Len(PriceReads) = Len(LiquidatableChecks)
    /\ pc = "fetchFloorPrice" =>
          Len(Checks) = idx /\ Len(PriceReads) = Len(LiquidatableChecks) - 1
    /\ \A j \in 1..Len(result) :
          /\ result[j].position = positions[SourceOf(j)]
          /\ j > 1 => SourceOf(j - 1) < SourceOf(j)

\* two positions, both liquidatable, were checked and priced in turn and
\* then persisted
C9_Witness ==
    /\ pc = "done"
    /\ Len(positions) = 2
    /\ Len(result) = 2
    /\ result[1].position # result[2].position
    /\ Settled = {1, 2}

Keys(tbl) == {RowKey(row) : row \in tbl}

\* C10: in one invocation no key is the target of two upserts, and no step
\* removes a key from the table.
C10_OneUpsertPerKey ==
    [][/\ \A j \in Issued' : \A q \in Issued' :
             j # q => WhereKey(result'[j]) # WhereKey(result'[q])
       /\ Keys(table) \subseteq Keys(table')]_vars

====
